---------------------------- MODULE Spec2Model ----------------------------
(***************************************************************************)
(* Model of pdf_to_excel_converter.py: the bank-statement PDF -> Excel/CSV *)
(* converter.                                                              *)
(*                                                                         *)
(* Text is modelled by TLA+ strings, character by character (TLC's Len,    *)
(* SubSeq and \o work on strings), so the regular expressions, the         *)
(* str.replace chain and the keyword searches are computed as Python       *)
(* computes them.  Amounts are Python floats with at most two decimals;    *)
(* they are held as integers in hundredths (float("2,500.00") = 250000).   *)
(* A Python Optional is a sequence of length 0 (None) or 1 (a value).      *)
(*                                                                         *)
(* Two specifications:                                                     *)
(*   Spec        main(): the per-file loop extract -> detect_sections ->   *)
(*               build_master_rows -> collect, over a list of PDFs.        *)
(*   ParserSpec  the line parser's pure functions (try_parse_amount,       *)
(*               normalize_amount_sign, infer_row_columns) applied to      *)
(*               lines drawn from a bounded set.                           *)
(***************************************************************************)
EXTENDS Integers, Sequences, FiniteSets, TLC

VARIABLES
    \* ---- environment
    OCR_AVAILABLE,  \* module global set by the optional import (lines 18-23)
    fuzzy,          \* the texts dateutil found a date in, of those it was asked
                    \* about during the latest build_master_rows / infer_row_columns
    \* ---- main()
    pdfs,           \* the folder's PDFs, in os.listdir order (line 230)
    pc,             \* main's position
    i,              \* index of the file the loop is at (line 242)
    lines,          \* value returned by extract_text_rows_from_pdf (line 246)
    ocrCalled,      \* whether apply_ocr was called for the current file
    sections,       \* detect_sections' dict, in insertion order (line 249)
    rows,           \* build_master_rows' list (line 250)
    master,         \* records of the non-empty per-file frames (lines 239, 256, 263)
    summary,        \* summary rows (lines 240, 258)
    combined,       \* pd.concat(master), the Master sheet and the CSV (line 263)
    extracted,      \* history: the line list extracted for each processed file
    \* ---- the line parser applied to one input
    ptext,          \* the text / raw line given to the parser functions
    pop,            \* which function has been applied ("idle" before)
    pin,            \* normalize_amount_sign's amount argument; infer_row_columns' local `amount`
    pout            \* the result: an optional amount, or the record of infer_row_columns

vars == <<OCR_AVAILABLE, fuzzy, pdfs, pc, i, lines, ocrCalled, sections, rows,
          master, summary, combined, extracted, ptext, pop, pin, pout>>

mainVars == <<pdfs, pc, i, lines, ocrCalled, sections, rows, master, summary,
              combined, extracted>>
parserVars == <<ptext, pop, pin, pout>>

-----------------------------------------------------------------------------
(* Bounds *)
MaxFiles == 2
MaxFields == 3

-----------------------------------------------------------------------------
(* Python values *)

None == << >>
Some(v) == << v >>

\* Python truthiness of an optional float: None and 0.0 are falsy.
Truthy(a) == a # None /\ a[1] # 0
\* a or b
PyOr(a, b) == IF Truthy(a) THEN a ELSE b
\* a if a is not None else b
OrElse(a, b) == IF a # None THEN a ELSE b

Min(S) == CHOOSE x \in S : \A y \in S : x <= y
Abs(n) == IF n < 0 THEN -n ELSE n

-----------------------------------------------------------------------------
(* Strings *)

\* s[i-1] in Python; "" past either end.
At(s, k) == IF k >= 1 /\ k <= Len(s) THEN SubSeq(s, k, k) ELSE ""
Tail_(s, k) == SubSeq(s, k, Len(s))

\* `sub in s`
Contains(s, sub) ==
    \E k \in 1..(Len(s) - Len(sub) + 1) : SubSeq(s, k, k + Len(sub) - 1) = sub

\* Code-point order of the characters the model's texts use: tab, newline and
\* form feed, then the printable ASCII characters (no backtick: the module's
\* string syntax has none).
ASCII == "\t\n\f !\"#$%&'()*+,-./0123456789:;<=>?@ABCDEFGHIJKLMNOPQRSTUVWXYZ[\\]^_abcdefghijklmnopqrstuvwxyz{|}~"
UPPERCASE == "ABCDEFGHIJKLMNOPQRSTUVWXYZ"
LOWERCASE == "abcdefghijklmnopqrstuvwxyz"
DIGITS == "0123456789"

\* s.find(c) + 1 for a character c: its first position, 0 when absent.
RECURSIVE FindFrom(_, _, _)
FindFrom(c, s, k) ==
    IF k > Len(s) THEN 0
    ELSE IF SubSeq(s, k, k) = c THEN k
    ELSE FindFrom(c, s, k + 1)
IndexIn(c, s) == FindFrom(c, s, 1)

UpperSet == {SubSeq(UPPERCASE, k, k) : k \in 1..Len(UPPERCASE)}
DigitSet == {SubSeq(DIGITS, k, k) : k \in 1..Len(DIGITS)}

IsDigit(c) == c \in DigitSet
\* \s of the re module, over the model's alphabet (space, tab, newline, form
\* feed); str.strip() strips the same characters.
IsSpace(c) == c \in {" ", "\t", "\n", "\f"}
\* [\₹\$\£] of AMOUNT_RE; the model's alphabet is ASCII, so only "$" occurs.
IsCurrency(c) == c = "$"

RECURSIVE lower(_)
lower(s) ==
    IF s = "" THEN ""
    ELSE LET c == SubSeq(s, 1, 1)
         IN  (IF c \in UpperSet
              THEN SubSeq(LOWERCASE, IndexIn(c, UPPERCASE), IndexIn(c, UPPERCASE))
              ELSE c) \o lower(Tail_(s, 2))

\* str.replace(old, new): non-overlapping occurrences, left to right.
RECURSIVE replace(_, _, _)
replace(s, old, new) ==
    IF Len(s) < Len(old) THEN s
    ELSE IF SubSeq(s, 1, Len(old)) = old
         THEN new \o replace(Tail_(s, Len(old) + 1), old, new)
         ELSE SubSeq(s, 1, 1) \o replace(Tail_(s, 2), old, new)

\* str.strip()
RECURSIVE lstrip(_)
lstrip(s) == IF s # "" /\ IsSpace(At(s, 1)) THEN lstrip(Tail_(s, 2)) ELSE s
RECURSIVE rstrip(_)
rstrip(s) == IF s # "" /\ IsSpace(At(s, Len(s))) THEN rstrip(SubSeq(s, 1, Len(s) - 1)) ELSE s
strip(s) == rstrip(lstrip(s))

\* Python's str < str: by code point, a proper prefix first.
RECURSIVE Mismatch(_, _, _)
Mismatch(a, b, k) ==
    IF k > Len(a) \/ k > Len(b) \/ SubSeq(a, k, k) # SubSeq(b, k, k) THEN k
    ELSE Mismatch(a, b, k + 1)
StrLess(a, b) ==
    LET k == Mismatch(a, b, 1)
    IN  IF k > Len(b) THEN FALSE
        ELSE IF k > Len(a) THEN TRUE
        ELSE IndexIn(SubSeq(a, k, k), ASCII) < IndexIn(SubSeq(b, k, k), ASCII)

\* Number of consecutive characters from position k on that satisfy a class.
RECURSIVE DigitRun(_, _)
DigitRun(s, k) == IF IsDigit(At(s, k)) THEN 1 + DigitRun(s, k + 1) ELSE 0
RECURSIVE DigitCommaRun(_, _)
DigitCommaRun(s, k) ==
    IF IsDigit(At(s, k)) \/ At(s, k) = "," THEN 1 + DigitCommaRun(s, k + 1) ELSE 0
RECURSIVE SpaceRun(_, _)
SpaceRun(s, k) == IF IsSpace(At(s, k)) THEN 1 + SpaceRun(s, k + 1) ELSE 0

\* int() of a string of decimal digits ("" counts 0).
RECURSIVE DecVal(_)
DecVal(s) ==
    IF s = "" THEN 0
    ELSE 10 * DecVal(SubSeq(s, 1, Len(s) - 1)) + (IndexIn(At(s, Len(s)), DIGITS) - 1)

HasDigit(s) == \E k \in 1..Len(s) : IsDigit(At(s, k))

-----------------------------------------------------------------------------
(* Module constants *)

SECTION_HEADERS ==
    << "Account Summary", "Deposits & Other Credits", "Deposits",
       "ATM Withdrawals & Debits", "ATM Withdrawals",
       "Withdrawals & Other Debits", "Checks Paid", "Checks",
       "Payments", "Transactions" >>

\* DATE_RE = (\d{1,2}[/-]\d{1,2}[/-]\d{2,4}|\d{4}[/-]\d{1,2}[/-]\d{1,2})
\* The end (inclusive) of the match that starts at k, 0 when there is none.
IsDateSep(c) == c \in {"/", "-"}
\* One alternative, item by item: a, b, c are the lengths of the three digit
\* runs found at k, k2, k3; first4 tells the \d{4}-first alternative.
DateYearEnd(first4, a, b, k3, c) ==
    IF /\ (IF first4 THEN a = 4 ELSE a \in {1, 2})
       /\ b \in {1, 2}
       /\ (IF first4 THEN c >= 1 ELSE c >= 2)
    THEN k3 + (IF first4 THEN Min({c, 2}) ELSE Min({c, 4})) - 1
    ELSE 0
DateThirdRun(s, first4, a, k2, b) ==
    IF IsDateSep(At(s, k2 + b))
    THEN DateYearEnd(first4, a, b, k2 + b + 1, DigitRun(s, k2 + b + 1))
    ELSE 0
DateSecondRun(s, k, first4, a) ==
    IF IsDateSep(At(s, k + a))
    THEN DateThirdRun(s, first4, a, k + a + 1, DigitRun(s, k + a + 1))
    ELSE 0
DateAltEnd(s, k, first4) == DateSecondRun(s, k, first4, DigitRun(s, k))
\* The alternatives of a regular expression are tried left to right.
FirstAlt(e1, e2) == IF e1 # 0 THEN e1 ELSE e2
DateMatchEnd(s, k) == FirstAlt(DateAltEnd(s, k, FALSE), DateAltEnd(s, k, TRUE))
\* Pattern.search: the match at the leftmost start K holds, or None.
DateGroup(s, K) ==
    IF K = {} THEN None ELSE Some(SubSeq(s, Min(K), DateMatchEnd(s, Min(K))))
\* DATE_RE.search(s): group(1) of the leftmost match, or None.
DATE_RE_search(s) == DateGroup(s, {k \in 1..Len(s) : DateMatchEnd(s, k) # 0})

\* AMOUNT_RE = (-?[\₹\$\£]?\s?[\d,]+(?:\.\d{1,2})?)
\* The optional prefix items cannot be matched by a later item, so the greedy
\* choice is the only one; [\d,]+ takes the whole run, the fraction is optional.
\* Item by item: each operator is given the position after the item before it.
AmountFraction(s, d) ==
    IF At(s, d) = "." /\ IsDigit(At(s, d + 1))
    THEN (IF IsDigit(At(s, d + 2)) THEN d + 3 ELSE d + 2)
    ELSE d
AmountDigits(s, c, n) == IF n = 0 THEN 0 ELSE AmountFraction(s, c + n) - 1
AmountRun(s, c) == AmountDigits(s, c, DigitCommaRun(s, c))
AmountSpace(s, b) == AmountRun(s, IF IsSpace(At(s, b)) THEN b + 1 ELSE b)
AmountCurrency(s, a) == AmountSpace(s, IF IsCurrency(At(s, a)) THEN a + 1 ELSE a)
AmountMatchEnd(s, k) == AmountCurrency(s, IF At(s, k) = "-" THEN k + 1 ELSE k)
AmountGroup(s, K) ==
    IF K = {} THEN None ELSE Some(SubSeq(s, Min(K), AmountMatchEnd(s, Min(K))))
\* AMOUNT_RE.search(s): group(1) of the leftmost match, or None.
AMOUNT_RE_search(s) == AmountGroup(s, {k \in 1..Len(s) : AmountMatchEnd(s, k) # 0})

-----------------------------------------------------------------------------
(* The line parser *)

\* re.sub(r'[^\d\.\-]', '', g)
RECURSIVE sub_non_numeric(_)
sub_non_numeric(g) ==
    IF g = "" THEN ""
    ELSE LET c == SubSeq(g, 1, 1)
         IN  (IF IsDigit(c) \/ c \in {".", "-"} THEN c ELSE "") \o sub_non_numeric(Tail_(g, 2))

\* float(t) for t = -?digits*(.digits{1,2})?, the only shape AMOUNT_RE leaves;
\* "" and "-" raise ValueError (None here).  The value is in hundredths.
to_float(t) ==
    LET neg  == At(t, 1) = "-"
        body == IF neg THEN Tail_(t, 2) ELSE t
        dot  == IndexIn(".", body)
        ip   == IF dot = 0 THEN body ELSE SubSeq(body, 1, dot - 1)
        fp   == IF dot = 0 THEN "" ELSE Tail_(body, dot + 1)
        mag  == 100 * DecVal(ip) + (IF Len(fp) = 1 THEN 10 * DecVal(fp) ELSE DecVal(fp))
    IN  IF ip = "" /\ fp = "" THEN None
        ELSE Some(IF neg THEN -mag ELSE mag)

\* Line 77: the accounting notation rewritten.
accounting_replaced(text) ==
    replace(replace(replace(replace(text, "(", "-"), ")", ""), "CR", ""), "Dr", "-")
\* Lines 78-80: the search without spaces, then with them.
amount_match(t) == OrElse(AMOUNT_RE_search(replace(t, " ", "")), AMOUNT_RE_search(t))
\* Lines 81-86
amount_of_match(m) == IF m = None THEN None ELSE to_float(sub_non_numeric(m[1]))
try_parse_amount(text) == amount_of_match(amount_match(accounting_replaced(text)))

negatives == <<"withdrawal", "debit", "paid", "purchase", "atm", "payment", "check">>
positives == <<"deposit", "credit", "interest", "refund">>
AnyIn(keys, text) == \E k \in 1..Len(keys) : Contains(text, keys[k])

\* Mutant: the credit keywords are looked for before the debit keywords.
normalize_amount_sign_credit_first(raw, amount) ==
    IF amount = None THEN None
    ELSE LET text == lower(raw)
         IN  IF AnyIn(positives, text) THEN Some(Abs(amount[1]))
             ELSE IF AnyIn(negatives, text) THEN Some(-Abs(amount[1]))
             ELSE amount

\* Mutant: a credit keyword leaves the parsed sign as it is (abs() forgotten).
normalize_amount_sign_no_abs(raw, amount) ==
    IF amount = None THEN None
    ELSE LET text == lower(raw)
         IN  IF AnyIn(negatives, text) THEN Some(-Abs(amount[1]))
             ELSE amount

normalize_amount_sign(raw, amount) ==
    IF amount = None THEN None
    ELSE LET text == lower(raw)
         IN  IF AnyIn(negatives, text) THEN Some(-Abs(amount[1]))
             ELSE IF AnyIn(positives, text) THEN Some(Abs(amount[1]))
             ELSE amount

\* dateutil's parser.parse(s, dayfirst=True, fuzzy=True).date(), an external
\* library: a DATE_RE-shaped string is a date (the model's texts hold valid
\* calendar dates only); text without a digit is none (the model's texts hold no
\* month or weekday names); on other digit-bearing text the library's verdict
\* is the environment's choice, text by text: fz holds the texts it finds a
\* date in.  A date is held as the text it came from.
dateparser_parse(fz, s) ==
    IF DATE_RE_search(s) = Some(s) THEN Some(s)
    ELSE IF ~HasDigit(s) THEN None
    ELSE IF s \in fz THEN Some(s) ELSE None

\* Lines 63-68: the DATE_RE match, parsed.
date_of_match(fz, m) == IF m # None THEN dateparser_parse(fz, m[1]) ELSE None
\* Lines 63-72, on the stripped text.
date_of_text(fz, t) == OrElse(date_of_match(fz, DATE_RE_search(t)), dateparser_parse(fz, t))
try_parse_date(fz, text) == date_of_text(fz, strip(text))

\* re.split(r'\s{2,}', line): the pieces between runs of 2+ whitespace.
RECURSIVE re_split_ws2(_)
re_split_ws2(line) ==
    LET K == {k \in 1..Len(line) : SpaceRun(line, k) >= 2}
    IN  IF K = {} THEN <<line>>
        ELSE LET k == Min(K)
             IN  <<SubSeq(line, 1, k - 1)>> \o re_split_ws2(Tail_(line, k + SpaceRun(line, k)))

\* re.sub(r'\s{2,}', ' ', raw)
re_sub_ws2(raw) ==
    LET ps == re_split_ws2(raw)
        F[k \in 1..Len(ps)] == IF k = 1 THEN ps[1] ELSE F[k - 1] \o " " \o ps[k]
    IN  F[Len(ps)]

rows_from_section_lines(ls) ==
    [k \in 1..Len(ls) |-> [raw |-> ls[k], parts |-> re_split_ws2(ls[k])]]

\* The loop of infer_row_columns (lines 168-172): the first field, in field order,
\* that each parser accepts.
RECURSIVE FirstDate(_, _)
FirstDate(fz, parts) ==
    IF parts = << >> THEN None
    ELSE OrElse(try_parse_date(fz, Head(parts)), FirstDate(fz, Tail(parts)))
RECURSIVE FirstAmount(_)
FirstAmount(parts) ==
    IF parts = << >> THEN None
    ELSE OrElse(try_parse_amount(Head(parts)), FirstAmount(Tail(parts)))

\* The local `date` after line 174.
infer_date(fz, row) == OrElse(FirstDate(fz, row.parts), try_parse_date(fz, row.raw))
\* The local `amount` after line 175: `amount or try_parse_amount(raw)`.
infer_amount(row) == PyOr(FirstAmount(row.parts), try_parse_amount(row.raw))

infer_row_columns(fz, row) ==
    [ Date        |-> infer_date(fz, row),
      Description |-> re_sub_ws2(row.raw),
      Amount      |-> normalize_amount_sign(row.raw, infer_amount(row)),
      Raw         |-> row.raw ]

\* The texts on which infer_row_columns leaves the verdict to dateutil: the
\* digit-bearing fields before the first field that DATE_RE matches, and the
\* raw line when DATE_RE matches none of it.
RECURSIVE asked_parts(_)
asked_parts(parts) ==
    IF parts = << >> \/ DATE_RE_search(strip(Head(parts))) # None THEN {}
    ELSE {strip(Head(parts))} \cup asked_parts(Tail(parts))
asked_of_row(row) ==
    {t \in asked_parts(row.parts)
            \cup (IF DATE_RE_search(strip(row.raw)) = None THEN {strip(row.raw)} ELSE {}) :
        HasDigit(t)}
asked_of_lines(ls) ==
    UNION {asked_of_row(rows_from_section_lines(ls)[k]) : k \in 1..Len(ls)}

-----------------------------------------------------------------------------
(* Sequences *)

RECURSIVE Flatten(_)
Flatten(ss) == IF ss = << >> THEN << >> ELSE Head(ss) \o Flatten(Tail(ss))

Range(sq) == {sq[k] : k \in 1..Len(sq)}

\* sorted(S) for a set of strings.
RECURSIVE sorted(_)
sorted(S) ==
    IF S = {} THEN << >>
    ELSE LET m == CHOOSE x \in S : \A y \in S \ {x} : StrLess(x, y)
         IN  <<m>> \o sorted(S \ {m})

\* list(dict.fromkeys(ls)): the first occurrence of each item, in order.
RECURSIVE dict_fromkeys(_)
dict_fromkeys(ls) ==
    IF ls = << >> THEN << >>
    ELSE LET init == dict_fromkeys(SubSeq(ls, 1, Len(ls) - 1))
             x    == ls[Len(ls)]
         IN  IF x \in Range(init) THEN init ELSE Append(init, x)

\* Every list holding each element of S once: the orders list(set(...)) can give.
RECURSIVE Orders(_)
Orders(S) ==
    IF S = {} THEN {<< >>}
    ELSE UNION {{<<x>> \o t : t \in Orders(S \ {x})} : x \in S}

\* str.splitlines(): of the model's alphabet, "\n" and "\f" end a line.
IsLineBreak(c) == c \in {"\n", "\f"}
RECURSIVE FirstBreak(_, _)
FirstBreak(text, k) ==
    IF k > Len(text) THEN 0
    ELSE IF IsLineBreak(At(text, k)) THEN k
    ELSE FirstBreak(text, k + 1)
RECURSIVE splitlines(_)
splitlines(text) ==
    IF text = "" THEN << >>
    ELSE LET k == FirstBreak(text, 1)
         IN  IF k = 0 THEN <<text>>
             ELSE <<SubSeq(text, 1, k - 1)>> \o splitlines(Tail_(text, k + 1))

\* "  ".join(cells)
RECURSIVE join2(_)
join2(cells) ==
    IF cells = << >> THEN ""
    ELSE IF Len(cells) = 1 THEN cells[1]
    ELSE cells[1] \o "  " \o join2(Tail(cells))

-----------------------------------------------------------------------------
(* Text/table extraction *)

\* A Python value that is a list or None.
PyList(items) == [isNone |-> FALSE, items |-> items]
PyNone == [isNone |-> TRUE, items |-> << >>]
\* `x or []` for such a value
OrEmpty(x) == IF x.isNone \/ x.items = << >> THEN PyList(<< >>) ELSE x

\* A page as pdfplumber gives it: extract_table()'s rows of cells (<< >> when
\* there is no table; a None cell is ""), extract_text()'s string ("" when
\* there is none), and whether reading the page raises.
Page(table, text) == [table |-> table, text |-> text, raises |-> FALSE]
BadPage == [table |-> << >>, text |-> "", raises |-> TRUE]

\* page_unique after lines 121-134.
page_unique(page) ==
    IF page.table # << >>
    THEN LET joined(row) == join2([k \in 1..Len(row) |-> strip(row[k])])
         IN  {strip(joined(page.table[r])) : r \in 1..Len(page.table)} \ {""}
    ELSE IF page.text # ""
    THEN {strip(l) : l \in Range(splitlines(page.text))} \ {""}
    ELSE {}

\* apply_ocr: the values it can return (the order of list(set(lines)) is free).
apply_ocr(doc) ==
    IF ~OCR_AVAILABLE THEN {PyNone}
    ELSE IF doc.ocr.raises THEN {PyNone}
    ELSE LET found == UNION {{strip(l) : l \in Range(splitlines(doc.ocr.images[k]))} \ {""}
                                : k \in 1..Len(doc.ocr.images)}
         IN  {PyList(o) : o \in Orders(found)}

\* Mutant: the final dict.fromkeys pass is left out (line 142 returns `lines`).
extract_text_rows_from_pdf_no_dedup(doc) ==
    LET failed == doc.open_raises \/ \E k \in 1..Len(doc.pages) : doc.pages[k].raises
        ls     == Flatten([k \in 1..Len(doc.pages) |-> sorted(page_unique(doc.pages[k]))])
    IN  IF failed
        THEN {[raised |-> FALSE, value |-> OrEmpty(o), ocr |-> TRUE] : o \in apply_ocr(doc)}
        ELSE IF ls # << >>
        THEN {[raised |-> FALSE, value |-> PyList(ls), ocr |-> FALSE]}
        ELSE {[raised |-> FALSE, value |-> OrEmpty(o), ocr |-> TRUE] : o \in apply_ocr(doc)}

\* extract_text_rows_from_pdf: its possible outcomes, each the value returned,
\* whether an exception left the function, and whether apply_ocr was called.
Outcome(value, ocr) == [raised |-> FALSE, value |-> value, ocr |-> ocr]
extract_text_rows_from_pdf(doc) ==
    LET failed == doc.open_raises \/ \E k \in 1..Len(doc.pages) : doc.pages[k].raises
        ls     == Flatten([k \in 1..Len(doc.pages) |-> sorted(page_unique(doc.pages[k]))])
        uniq   == dict_fromkeys(ls)
    IN  IF failed
        THEN {Outcome(OrEmpty(o), TRUE) : o \in apply_ocr(doc)}
        ELSE IF uniq # << >>
        THEN {Outcome(PyList(uniq), FALSE)}
        ELSE {Outcome(OrEmpty(o), TRUE) : o \in apply_ocr(doc)}

-----------------------------------------------------------------------------
(* Section detection *)

\* h.lower() for each h of SECTION_HEADERS.
LOWER_HEADERS == [h \in 1..Len(SECTION_HEADERS) |-> lower(SECTION_HEADERS[h])]

\* Mutant: the last header of SECTION_HEADERS the line contains (no `break`).
matching_header_last(line) ==
    LET text == lower(line)
        H == {h \in 1..Len(SECTION_HEADERS) : Contains(text, LOWER_HEADERS[h])}
    IN  IF H = {} THEN "" ELSE SECTION_HEADERS[CHOOSE h \in H : \A g \in H : g <= h]

\* The inner loop of detect_sections (lines 148-151): the first header of
\* SECTION_HEADERS the line contains, "" when it contains none.
matching_header(line) ==
    LET text == lower(line)
        H == {h \in 1..Len(SECTION_HEADERS) : Contains(text, LOWER_HEADERS[h])}
    IN  IF H = {} THEN "" ELSE SECTION_HEADERS[Min(H)]

\* sections.setdefault(key, []).append(line), the dict as its items in insertion order.
setdefault_append(d, key, line) ==
    IF \E k \in 1..Len(d) : d[k].label = key
    THEN [k \in 1..Len(d) |->
            IF d[k].label = key THEN [d[k] EXCEPT !.lines = Append(@, line)] ELSE d[k]]
    ELSE Append(d, [label |-> key, lines |-> <<line>>])

RECURSIVE detect_loop(_, _, _)
detect_loop(ls, current, d) ==
    IF ls = << >> THEN d
    ELSE LET h   == matching_header(Head(ls))
             cur == IF h = "" THEN current ELSE h
         IN  detect_loop(Tail(ls), cur, setdefault_append(d, cur, Head(ls)))

detect_sections(ls) == detect_loop(ls, "Uncategorized", << >>)

-----------------------------------------------------------------------------
(* Header/noise filter *)

skip_keywords ==
    << "date", "description", "debit", "credit", "balance",
       "invoice", "amount", "customer", "check", "paid", "account",
       "statement", "summary", "opening", "closing" >>

\* Mutant: the date is not looked at.
skipped_ignores_date(entry) ==
    /\ entry.Amount = None
    /\ LET raw_lower == lower(entry.Raw) IN AnyIn(skip_keywords, raw_lower)

\* Lines 201-203: whether the entry is skipped.
skipped(entry) ==
    /\ entry.Date = None
    /\ entry.Amount = None
    /\ LET raw_lower == lower(entry.Raw) IN AnyIn(skip_keywords, raw_lower)

\* The inner loop of build_master_rows for one section.
section_rows(fz, sec, ls, src) ==
    LET rs    == rows_from_section_lines(ls)
        entry == [k \in 1..Len(rs) |-> infer_row_columns(fz, rs[k])]
        kept  == SelectSeq(entry, LAMBDA e : ~skipped(e))
    IN  [k \in 1..Len(kept) |-> [ Date        |-> kept[k].Date,
                                  Description |-> kept[k].Description,
                                  Amount      |-> kept[k].Amount,
                                  Raw         |-> kept[k].Raw,
                                  Section     |-> sec,
                                  SourceFile  |-> src ]]

\* Mutant: the sections are walked last to first.
build_master_rows_reversed(fz, secs, src) ==
    Flatten([k \in 1..Len(secs) |->
                section_rows(fz, secs[Len(secs) + 1 - k].label, secs[Len(secs) + 1 - k].lines, src)])

build_master_rows(fz, secs, src) ==
    Flatten([k \in 1..Len(secs) |-> section_rows(fz, secs[k].label, secs[k].lines, src)])

-----------------------------------------------------------------------------
(* Inputs: the PDFs a folder can hold *)

Ocr(images) == [raises |-> FALSE, images |-> images]
OcrRaises == [raises |-> TRUE, images |-> << >>]
OcrText == Ocr(<<"Deposits\n03/01/23 Salary 1000.00\n", "03/01/23 Salary 1000.00\n  \n">>)
OcrBlank == Ocr(<<" \n">>)

Doc(pages, ocr) == [open_raises |-> FALSE, pages |-> pages, ocr |-> ocr]
Unreadable(ocr) == [open_raises |-> TRUE, pages |-> << >>, ocr |-> ocr]

\* One page holding the table of a statement: a header row and a data row.
TableDoc ==
    Doc(<< Page(<< <<"Date", "Desc", "Amount">>,
                   <<"01/02/2023", "Check 101", "-200.00">> >>, "") >>, OcrRaises)
\* Three pages; the lines of the third return to the section of the first.
SectionsDoc ==
    Doc(<< Page(<< >>, "Deposits"),
           Page(<< >>, "04/01/23  Salary  1000\nChecks Paid\nCheque  05/01/23  75.50\n"),
           Page(<< >>, "DEPOSITS (continued)\nInvoice 20.00") >>, OcrText)
\* Lines repeated within a page and on a later page, a table preferred to the
\* page's text, and header and footer lines with and without a date or an amount.
StatementDoc ==
    Doc(<< Page(<< >>, "Statement of Account\n01/02/2023  ATM Withdrawal  500.00\n Statement of Account \nOpening Balance\nThank you\nBalance, on 01/02/2023\nATM Withdrawals & Debits"),
           Page(<< <<"Statement of Account", "">>,
                   <<"03/02/2023", " Deposit", "250.00">>,
                   <<"", "">>,
                   <<"01/02/2023", "ATM Withdrawal", "500.00">>,
                   <<"Summary, page 2", "">> >>, "text not used") >>, OcrText)
\* Pages with nothing on them: a blank table row, no table and no text.
BlankDoc == Doc(<< Page(<< <<"", " ">> >>, "text not used"), Page(<< >>, "") >>, OcrText)
\* A page that cannot be read, after one that can.
BadPageDoc == Doc(<< Page(<< >>, "Payments\nRent 900.00"), BadPage >>, OcrBlank)

\* A table cell holding a form feed between two words.
FormFeedDoc ==
    Doc(<< Page(<< <<"05/02/2023", "Card\f4421", "12.00">> >>, "") >>, OcrRaises)

Documents ==
    { TableDoc, SectionsDoc, StatementDoc, BlankDoc, BadPageDoc, Unreadable(OcrRaises),
      FormFeedDoc }

\* os.listdir gives distinct names; the k-th file of the folder is named:
FileNames == <<"bank_jan.pdf", "Visa.PDF", "stmt_3.pdf", "scan-4.pdf">>
\* A folder of downloads, each named with brackets.
BracketNames == <<"jan[1].pdf", "feb[1].pdf", "mar[1].pdf", "apr[1].pdf">>
Listings == {FileNames, BracketNames}

Folders ==
    UNION {[1..n -> Documents] : n \in 0..MaxFiles}

-----------------------------------------------------------------------------
(* Inputs: the texts given to the line parser *)

AmountStrings == {"500.00", "2,500.00", "7", "0.00", "12.5", "$45.10", "1,234"}
AmountTexts ==
    AmountStrings
    \cup {"(" \o n \o ")" : n \in AmountStrings}
    \cup {n \o " CR" : n \in AmountStrings}
    \cup {n \o " Dr" : n \in AmountStrings}

FieldPool ==
    {"01/02/2023", "Check 101", "-200.00", "0", "5.00", "Deposit", "ATM Withdrawal",
     ",x"}

RECURSIVE LinesOf(_)
LinesOf(n) ==
    IF n = 1 THEN FieldPool
    ELSE {l \o "  " \o f : l \in LinesOf(n - 1), f \in FieldPool}
ParserLines == UNION {LinesOf(n) : n \in 1..MaxFields}

SignAmounts == {None, Some(-50000), Some(0), Some(2550)}

-----------------------------------------------------------------------------
(* main() *)

\* The texts build_master_rows leaves to dateutil's verdict.
asked_of_sections(secs) == UNION {asked_of_lines(secs[k].lines) : k \in 1..Len(secs)}

\* str() of a number, zero-padded to w digits.
RECURSIVE zfill(_, _)
zfill(t, w) == IF Len(t) >= w THEN t ELSE zfill("0" \o t, w)
\* dateutil's year: a year below 100 in a date holding no number written with
\* more than 2 digits is taken within 50 years of the clock's year (taken to
\* be 2026); any other year is read as written.
convertyear(y, century_specified) ==
    IF century_specified \/ DecVal(y) >= 100 THEN DecVal(y)
    ELSE IF DecVal(y) < 76 THEN 2000 + DecVal(y) ELSE 1900 + DecVal(y)
date_isoformat(y, m, d, century_specified) ==
    zfill(ToString(convertyear(y, century_specified)), 4)
        \o "-" \o zfill(ToString(DecVal(m)), 2) \o "-" \o zfill(ToString(DecVal(d)), 2)
\* dateutil's reading of three numbers a, b, c with dayfirst=True: a first
\* number written with more than 2 digits, or above 31, is the year.
resolve_ymd(a, b, c, century_specified) ==
    IF DecVal(a) > 31 \/ Len(a) > 2
    THEN (IF DecVal(c) <= 12 THEN date_isoformat(a, c, b, century_specified)
                             ELSE date_isoformat(a, b, c, century_specified))
    ELSE IF DecVal(a) > 12 \/ DecVal(b) <= 12
         THEN date_isoformat(c, b, a, century_specified)
         ELSE date_isoformat(c, a, b, century_specified)
\* The three numbers of a DATE_RE-shaped text, la and lb digits in the first two.
\* dateutil takes the third number as written (a string, whose length counts)
\* only after the separator that followed the first; after another separator
\* it takes its value.
date_fields(t, la, lb) ==
    resolve_ymd(SubSeq(t, 1, la), SubSeq(t, la + 2, la + 1 + lb), Tail_(t, la + lb + 3),
                la > 2 \/ (At(t, la + 1) = At(t, la + lb + 2) /\ Len(t) - (la + lb + 2) > 2))
\* str(d) of the date d made of the text t: YYYY-MM-DD for a DATE_RE-shaped
\* text; for other text the date is the library's, written here <t>.
date_str(t) ==
    IF DATE_RE_search(t) = Some(t)
    THEN date_fields(t, DigitRun(t, 1), DigitRun(t, DigitRun(t, 1) + 2))
    ELSE "<" \o t \o ">"
\* Line 254: df["Date"] = df["Date"].astype(str)
Date_astype_str(df) ==
    [k \in 1..Len(df) |->
        [df[k] EXCEPT !.Date = IF df[k].Date = None THEN "None" ELSE date_str(df[k].Date[1])]]

MainIdle ==
    /\ pdfs = << >>
    /\ pc = "off"
    /\ i = 0
    /\ lines = PyList(<< >>)
    /\ ocrCalled = FALSE
    /\ sections = << >>
    /\ rows = << >>
    /\ master = << >>
    /\ summary = << >>
    /\ combined = << >>
    /\ extracted = << >>

ParserIdle ==
    /\ ptext = ""
    /\ pop = "off"
    /\ pin = None
    /\ pout = None

Init ==
    /\ OCR_AVAILABLE \in BOOLEAN
    /\ fuzzy = {}
    /\ \E folder \in Folders, names \in Listings :
          pdfs = [k \in 1..Len(folder) |-> [name |-> names[k], doc |-> folder[k]]]
    /\ pc = "start"
    /\ i = 0
    /\ lines = PyList(<< >>)
    /\ ocrCalled = FALSE
    /\ sections = << >>
    /\ rows = << >>
    /\ master = << >>
    /\ summary = << >>
    /\ combined = << >>
    /\ extracted = << >>
    /\ ParserIdle

\* Lines 231-233: no PDF in the folder, main returns.
NoPdfs ==
    /\ pc = "start"
    /\ pdfs = << >>
    /\ pc' = "done"
    /\ UNCHANGED <<OCR_AVAILABLE, fuzzy, pdfs, i, lines, ocrCalled, sections, rows,
                   master, summary, combined, extracted, parserVars>>

\* Lines 235-242: the writer is opened and the loop starts at the first file.
StartLoop ==
    /\ pc = "start"
    /\ pdfs # << >>
    /\ pc' = "extract"
    /\ i' = 1
    /\ UNCHANGED <<OCR_AVAILABLE, fuzzy, pdfs, lines, ocrCalled, sections, rows,
                   master, summary, combined, extracted, parserVars>>

\* Lines 243-247: the file's lines are extracted and counted.  An exception that
\* leaves extract_text_rows_from_pdf, or len() of None, ends main.
Extract ==
    /\ pc = "extract"
    /\ \E o \in extract_text_rows_from_pdf(pdfs[i].doc) :
          /\ lines' = o.value
          /\ ocrCalled' = o.ocr
          /\ pc' = IF o.raised \/ o.value.isNone THEN "crashed" ELSE "detect"
          /\ extracted' = IF o.raised \/ o.value.isNone THEN extracted
                          ELSE Append(extracted, o.value.items)
    /\ UNCHANGED <<OCR_AVAILABLE, fuzzy, pdfs, i, sections, rows, master, summary,
                   combined, parserVars>>

\* Line 249.
Detect ==
    /\ pc = "detect"
    /\ sections' = detect_sections(lines.items)
    /\ pc' = "build"
    /\ UNCHANGED <<OCR_AVAILABLE, fuzzy, pdfs, i, lines, ocrCalled, rows, master,
                   summary, combined, extracted, parserVars>>

\* Line 250; dateutil gives its verdicts on the texts it is asked about.
Build ==
    /\ pc = "build"
    /\ UNCHANGED <<OCR_AVAILABLE, pdfs, i, lines, ocrCalled, sections, master,
                   summary, combined, extracted, parserVars>>
    /\ \E fz \in SUBSET asked_of_sections(sections) :
          /\ fuzzy' = fz
          /\ rows' = build_master_rows(fz, sections, pdfs[i].name)
    /\ pc' = "collect"

\* Line 255, sheet_name=file[:31].
sheet_name(file) == SubSeq(file, 1, IF Len(file) < 31 THEN Len(file) ELSE 31)
\* openpyxl refuses a sheet title holding one of \ * ? : / [ ] (ValueError).
InvalidTitleChar(c) == c \in {"\\", "*", "?", ":", "/", "[", "]"}
InvalidTitle(title) == \E k \in 1..Len(title) : InvalidTitleChar(At(title, k))
\* openpyxl refuses a text cell holding a control character other than tab,
\* newline and carriage return (IllegalCharacterError); of the model's
\* alphabet, the form feed.
IllegalCharacter(c) == c = "\f"
HasIllegalCharacter(text) == \E k \in 1..Len(text) : IllegalCharacter(At(text, k))
TextCells(entry) ==
    {entry.Date, entry.Description, entry.Raw, entry.Section, entry.SourceFile}
\* Line 255: whether df.to_excel(writer, sheet_name=file[:31]) raises, df being
\* the frame after line 254.  Nothing in main catches the exception.
to_excel_raises(df, file) ==
    \/ InvalidTitle(sheet_name(file))
    \/ \E k \in 1..Len(df) : \E cell \in TextCells(df[k]) : HasIllegalCharacter(cell)

\* Lines 252-258: a non-empty frame gets its sheet and joins master, then the
\* file gets its summary row and the loop moves on.  When the sheet cannot be
\* written, the exception of line 255 ends main: neither master.append nor
\* summary.append is reached, and no Summary sheet, Master sheet or CSV is
\* written.
Collect ==
    /\ pc = "collect"
    /\ IF rows # << >> /\ to_excel_raises(Date_astype_str(rows), pdfs[i].name)
       THEN /\ pc' = "sheet_raised"
            /\ UNCHANGED <<i, master, summary>>
       ELSE /\ master' = IF rows # << >> THEN Append(master, Date_astype_str(rows))
                         ELSE master
            /\ summary' = Append(summary, [File |-> pdfs[i].name, Rows |-> Len(rows),
                                           Status |-> "OK"])
            /\ IF i < Len(pdfs)
               THEN i' = i + 1 /\ pc' = "extract"
               ELSE i' = i /\ pc' = "write"
    /\ UNCHANGED <<OCR_AVAILABLE, fuzzy, pdfs, lines, ocrCalled, sections, rows,
                   combined, extracted, parserVars>>

\* Lines 260-267: the Summary sheet, then the Master sheet and the CSV.
WriteOutputs ==
    /\ pc = "write"
    /\ combined' = Flatten(master)
    /\ pc' = "done"
    /\ UNCHANGED <<OCR_AVAILABLE, fuzzy, pdfs, i, lines, ocrCalled, sections, rows,
                   master, summary, extracted, parserVars>>

Next ==
    \/ NoPdfs
    \/ StartLoop
    \/ Extract
    \/ Detect
    \/ Build
    \/ Collect
    \/ WriteOutputs

Spec == Init /\ [][Next]_vars

-----------------------------------------------------------------------------
(* The line parser applied to one text *)

ParserInit ==
    /\ OCR_AVAILABLE = TRUE
    /\ fuzzy = {}
    /\ MainIdle
    /\ ptext \in AmountTexts \cup ParserLines
    /\ pop = "idle"
    /\ pin = None
    /\ pout = None

ParseAmount ==
    /\ pop = "idle"
    /\ pop' = "amount"
    /\ pout' = try_parse_amount(ptext)
    /\ UNCHANGED <<OCR_AVAILABLE, fuzzy, mainVars, ptext, pin>>

NormalizeSign ==
    /\ pop = "idle"
    /\ \E a \in SignAmounts :
          /\ pin' = a
          /\ pout' = normalize_amount_sign(ptext, a)
    /\ pop' = "sign"
    /\ UNCHANGED <<OCR_AVAILABLE, fuzzy, mainVars, ptext>>

\* rows_from_section_lines on the one line, then infer_row_columns on its row.
InferRow ==
    /\ pop = "idle"
    /\ UNCHANGED <<OCR_AVAILABLE, mainVars, ptext>>
    /\ \E fz \in SUBSET asked_of_lines(<<ptext>>) :
          /\ fuzzy' = fz
          /\ pout' = infer_row_columns(fz, rows_from_section_lines(<<ptext>>)[1])
    /\ pin' = infer_amount(rows_from_section_lines(<<ptext>>)[1])
    /\ pop' = "infer"

ParserNext ==
    \/ ParseAmount
    \/ NormalizeSign
    \/ InferRow

ParserSpec == ParserInit /\ [][ParserNext]_vars

-----------------------------------------------------------------------------
(* Vocabulary of the claims *)

Max(S) == CHOOSE x \in S : \A y \in S : x >= y
NoDup(sq) == \A a, b \in 1..Len(sq) : a # b => sq[a] # sq[b]
\* The position of an item in a list without repeats (0 when absent).
PosIn(sq, x) == IF \E k \in 1..Len(sq) : sq[k] = x
                THEN CHOOSE k \in 1..Len(sq) : sq[k] = x ELSE 0

DebitWords == {"withdrawal", "debit", "paid", "purchase", "atm", "payment", "check"}
CreditWords == {"deposit", "credit", "interest", "refund"}
NoiseWords == {"date", "description", "debit", "credit", "balance", "invoice", "amount",
               "customer", "check", "paid", "account", "statement", "summary",
               "opening", "closing"}
HasWord(words, line) == LET text == lower(line) IN \E w \in words : Contains(text, w)

\* The header keywords a line contains, as indices of SECTION_HEADERS.
HeaderWords(line) ==
    LET text == lower(line)
    IN  {h \in 1..Len(SECTION_HEADERS) : Contains(text, LOWER_HEADERS[h])}
\* The section of every line of ls: the first keyword of the latest header line
\* at or before it, "Uncategorized" before any header line.
SectionLabels(ls) ==
    LET hw == [k \in 1..Len(ls) |-> HeaderWords(ls[k])]
    IN  [k \in 1..Len(ls) |->
            LET J == {j \in 1..k : hw[j] # {}}
            IN  IF J = {} THEN "Uncategorized" ELSE SECTION_HEADERS[Min(hw[Max(J)])]]

\* The file of the folder with a given name, as its index.
FileIndex(name) == CHOOSE k \in 1..Len(pdfs) : pdfs[k].name = name

\* The non-blank lines, stripped, that a sequence of texts holds.
TextLines(texts) ==
    UNION {{strip(l) : l \in Range(splitlines(texts[k]))} \ {""} : k \in 1..Len(texts)}

-----------------------------------------------------------------------------
(* Claims about main(), checked under Spec *)

\* C1: for the one-page table [["Date","Desc","Amount"],
\* ["01/02/2023","Check 101","-200.00"]], extraction, detect_sections and
\* build_master_rows give exactly one record: the header row is dropped and the
\* data row is kept with Amount -200.00, taken from the "-200.00" field.
C1_EndToEnd ==
    (pc = "collect" /\ pdfs[i].doc = TableDoc) =>
        /\ Len(rows) = 1
        /\ rows[1].Raw = "01/02/2023  Check 101  -200.00"
        /\ rows[1].Amount = Some(-20000)

\* C5: build_master_rows leaves a parsed record out if and only if its Date is
\* absent, its Amount is absent and its lowercased raw line has a noise keyword;
\* a record with a Date or an Amount is kept whatever its keywords; every kept
\* record carries its bucket's label and the source file name.
C5_NoiseFilter ==
    pc = "collect" =>
        /\ \A b \in 1..Len(sections) : \A l \in 1..Len(sections[b].lines) :
              LET line  == sections[b].lines[l]
                  entry == infer_row_columns(fuzzy, rows_from_section_lines(<<line>>)[1])
                  kept  == \E r \in 1..Len(rows) :
                              /\ rows[r].Raw = line
                              /\ rows[r].Section = sections[b].label
                              /\ rows[r].Date = entry.Date
                              /\ rows[r].Amount = entry.Amount
              IN  ~kept <=> (/\ entry.Date = None
                             /\ entry.Amount = None
                             /\ HasWord(NoiseWords, line))
        /\ \A r \in 1..Len(rows) :
              /\ rows[r].SourceFile = pdfs[i].name
              /\ \E b \in 1..Len(sections) :
                    /\ sections[b].label = rows[r].Section
                    /\ rows[r].Raw \in Range(sections[b].lines)

\* C5's case: of one file's lines with a noise keyword, one without date and
\* amount was left out and one with a date and no amount was kept.
C5_Witness ==
    /\ pc = "collect"
    /\ \E b \in 1..Len(sections) : \E l \in 1..Len(sections[b].lines) :
          /\ HasWord(NoiseWords, sections[b].lines[l])
          /\ \A r \in 1..Len(rows) : rows[r].Raw # sections[b].lines[l]
    /\ \E r \in 1..Len(rows) :
          /\ HasWord(NoiseWords, rows[r].Raw)
          /\ rows[r].Date # None
          /\ rows[r].Amount = None

\* C6: detect_sections partitions the lines: every line is in exactly one
\* bucket, the bucket of the first SECTION_HEADERS keyword that the latest header
\* line at or before it contains (case-insensitively), "Uncategorized" before
\* any header line; a bucket keeps the input order; the labels are in order of
\* first appearance.
C6_SectionPartition ==
    pc = "build" =>
        \A label \in {SectionLabels(lines.items)} :
            LET ls == lines.items
                first(b) == Min({k \in 1..Len(ls) : label[k] = sections[b].label})
            IN  /\ \A k \in 1..Len(ls) :
                      Cardinality({b \in 1..Len(sections) :
                                      ls[k] \in Range(sections[b].lines)}) = 1
                /\ \A b \in 1..Len(sections) :
                      /\ sections[b].lines # << >>
                      /\ sections[b].lines =
                            SelectSeq(ls, LAMBDA x : label[PosIn(ls, x)] = sections[b].label)
                /\ \A b, c \in 1..Len(sections) :
                      b < c => (sections[b].label # sections[c].label /\ first(b) < first(c))

\* C6's case: for ["Deposits", "04/01/23  Salary  1000", ...] the second line is
\* in the bucket "Deposits", and a later header line came back to that bucket.
C6_Witness ==
    /\ pc = "build"
    /\ Len(lines.items) >= 2
    /\ SubSeq(lines.items, 1, 2) = <<"Deposits", "04/01/23  Salary  1000">>
    /\ Len(sections) = 2
    /\ sections[1].label = "Deposits"
    /\ Len(sections[1].lines) >= 3
    /\ SubSeq(sections[1].lines, 1, 3) =
          <<"Deposits", "04/01/23  Salary  1000", "DEPOSITS (continued)">>

\* Where a record of the combined table comes from: its file, its line in that
\* file's extracted lines, and the first line of its section there (labels[f]
\* being the sections of the lines of file f).
RecordKey(r, labels) ==
    LET f == FileIndex(r.SourceFile)
    IN  [ file    |-> f,
          line    |-> PosIn(extracted[f], r.Raw),
          section |-> r.Section,
          start   |-> Min({k \in 1..Len(extracted[f]) : labels[f][k] = r.Section}) ]
\* Whether every record of the combined table is Before every later one.
MasterOrderedBy(Before(_, _)) ==
    \A labels \in {[f \in 1..Len(extracted) |-> SectionLabels(extracted[f])]} :
        \A key \in {[k \in 1..Len(combined) |-> RecordKey(combined[k], labels)]} :
            \A a, b \in 1..Len(combined) : a < b => Before(key[a], key[b])

InLineOrder(x, y) ==
    \/ x.file < y.file
    \/ x.file = y.file /\ x.line < y.line
InSectionOrder(x, y) ==
    \/ x.file < y.file
    \/ /\ x.file = y.file
       /\ \/ x.start < y.start
          \/ x.section = y.section /\ x.line < y.line

\* C7 as stated: the master table lists the records in file-processing order,
\* and within a file in the order of their lines in the file's extracted lines,
\* also when the lines return to a section seen earlier.
C7_MasterInLineOrder == pc = "done" => MasterOrderedBy(InLineOrder)

\* C7 as amended: the master table lists the records in file-processing order;
\* within a file the records are grouped by section, the sections in order of
\* first appearance in the file's lines, and within a section in line order.
C7_MasterInSectionOrder == pc = "done" => MasterOrderedBy(InSectionOrder)

\* C7's case: two files are in the master table, the first with lines that
\* return to an earlier section, its records grouped by section.
C7_Witness ==
    /\ pc = "done"
    /\ Len(pdfs) = 2
    /\ pdfs[1].doc = SectionsDoc
    /\ pdfs[2].doc = TableDoc
    /\ Len(combined) = 6
    /\ [k \in 1..6 |-> combined[k].Section] =
          <<"Deposits", "Deposits", "Deposits", "Deposits", "Checks Paid", "Uncategorized">>
    /\ combined[6].SourceFile = pdfs[2].name

\* The lines of the pages of the current file, and the first page holding a line.
PageLines(k) == page_unique(pdfs[i].doc.pages[k])
FirstPage(x) == Min({k \in 1..Len(pdfs[i].doc.pages) : x \in PageLines(k)})

\* C8: extract_text_rows_from_pdf returns no line twice on any path; on the
\* standard path the lines of a page are unique and sorted, the pages follow in
\* page order, and a line seen on an earlier page stays at its first place only.
C8_NoRepeatedLine ==
    pc = "detect" =>
        LET ls == lines.items
        IN  /\ NoDup(ls)
            /\ ~ocrCalled =>
                  /\ Range(ls) = UNION {PageLines(k) : k \in 1..Len(pdfs[i].doc.pages)}
                  /\ \A a, b \in 1..Len(ls) :
                        a < b =>
                            \/ FirstPage(ls[a]) < FirstPage(ls[b])
                            \/ /\ FirstPage(ls[a]) = FirstPage(ls[b])
                               /\ StrLess(ls[a], ls[b])
            /\ ocrCalled => Range(ls) \subseteq TextLines(pdfs[i].doc.ocr.images)

\* C8's case: a file whose second page repeats two lines of the first has been
\* extracted, and each line is there once.
C8_Witness ==
    /\ pc = "detect"
    /\ pdfs[i].doc = StatementDoc
    /\ PageLines(1) \cap PageLines(2) =
          {"Statement of Account", "01/02/2023  ATM Withdrawal  500.00"}
    /\ Len(lines.items) = Cardinality(PageLines(1) \cup PageLines(2))

\* Whether the standard extraction of a document raises, or yields no line.
StandardRaises(doc) == doc.open_raises \/ \E k \in 1..Len(doc.pages) : doc.pages[k].raises
StandardEmpty(doc) == \A k \in 1..Len(doc.pages) : page_unique(doc.pages[k]) = {}
OcrGivesNothing(doc) == ~OCR_AVAILABLE \/ doc.ocr.raises \/ TextLines(doc.ocr.images) = {}

\* What C9 says of extract_text_rows_from_pdf: it never raises and never returns
\* None; OCR is attempted only when the standard extraction raises or yields no
\* line; when OCR is unavailable, raises or yields nothing the result is the
\* empty list.
ExtractionDegrades ==
    /\ pc # "crashed"
    /\ ~lines.isNone
    /\ pc = "detect" =>
          /\ ocrCalled => (StandardRaises(pdfs[i].doc) \/ StandardEmpty(pdfs[i].doc))
          /\ (ocrCalled /\ OcrGivesNothing(pdfs[i].doc)) => lines.items = << >>

\* What C9 says of main: one summary row is appended for every file the loop
\* has been through, so that when main ends, in whatever way, the summary has
\* as many rows as there are input PDFs.
SummaryRowPerFile ==
    /\ pc \in {"extract", "detect", "build", "collect"} => Len(summary) = i - 1
    /\ pc \in {"write", "done", "sheet_raised"} =>
          /\ Len(summary) = Len(pdfs)
          /\ \A k \in 1..Len(pdfs) : summary[k].File = pdfs[k].name

\* C9: OCR is attempted only when the standard extraction raises or yields no
\* line; when OCR is unavailable, raises or yields nothing the result is the
\* empty list; extract_text_rows_from_pdf never raises and never returns None;
\* main appends one summary row per file whatever the extraction outcome, so
\* the summary has as many rows as there are input PDFs.
\* The part about main fails: a file whose extraction yields a record, and which
\* is named with a bracket or holds a form feed in a line, ends main at line 255
\* before its summary row.
C9_FailurePolicy == ExtractionDegrades /\ SummaryRowPerFile

-----------------------------------------------------------------------------
(* Claims about the line parser, checked under ParserSpec *)

\* C2: try_parse_amount reads accounting-negative notation: "(2,500.00)" gives
\* -2500.00, "500.00 CR" gives 500.00 and "500.00 Dr" gives -500.00; for every
\* amount string N, "(N)" and "N Dr" give minus the value of N and "N CR" gives
\* the value of N; infer_row_columns on the line "500.00 Dr" gives -500.00.
C2_AccountingNotation ==
    /\ pop = "amount" =>
          /\ ptext = "(2,500.00)" => pout = Some(-250000)
          /\ ptext = "500.00 CR" => pout = Some(50000)
          /\ ptext = "500.00 Dr" => pout = Some(-50000)
          /\ \A n \in AmountStrings :
                LET v == try_parse_amount(n)
                IN  /\ ptext = "(" \o n \o ")" => pout = Some(-v[1])
                    /\ ptext = n \o " CR" => pout = v
                    /\ ptext = n \o " Dr" => pout = Some(-v[1])
    /\ (pop = "infer" /\ ptext = "500.00 Dr") => pout.Amount = Some(-50000)

\* C3: normalize_amount_sign, for every raw line and parsed amount a: a line
\* with a debit keyword gives -|a| (also when it has a credit keyword too);
\* otherwise a line with a credit keyword gives |a|; otherwise a is unchanged;
\* an absent amount stays absent.
C3_SignNormalization ==
    pop = "sign" =>
        IF pin = None THEN pout = None
        ELSE IF HasWord(DebitWords, ptext) THEN pout = Some(-Abs(pin[1]))
        ELSE IF HasWord(CreditWords, ptext) THEN pout = Some(Abs(pin[1]))
        ELSE pout = pin

\* C3's case: a positive amount on a line with both a credit and a debit keyword
\* has come out negative.
C3_Witness ==
    /\ pop = "sign"
    /\ HasWord(DebitWords, ptext)
    /\ HasWord(CreditWords, ptext)
    /\ pin = Some(2550)
    /\ pout = Some(-2550)

\* C4 as stated: every raw line with an amount and a credit keyword (deposit,
\* credit, interest, refund) gets a positive Amount from infer_row_columns.
C4_CreditKeywordPositive ==
    (pop = "infer" /\ pout.Amount # None /\ HasWord(CreditWords, ptext))
        => pout.Amount[1] > 0

\* C4 as amended: every raw line with a credit keyword, no debit keyword and a
\* non-zero amount gets a positive Amount from infer_row_columns.
C4_CreditOnlyPositive ==
    (/\ pop = "infer"
     /\ pout.Amount # None
     /\ pin # Some(0)
     /\ HasWord(CreditWords, ptext)
     /\ ~HasWord(DebitWords, ptext))
        => pout.Amount[1] > 0

\* C4's case: a negative amount on a credit-only line has been made positive.
C4_Witness ==
    /\ pop = "infer"
    /\ ptext = "Deposit  -200.00"
    /\ pin = Some(-20000)
    /\ pout.Amount = Some(20000)

\* C10: the amount infer_row_columns parses is the value of the first field
\* (the pieces between runs of 2+ whitespace) that try_parse_amount accepts, the
\* value 0 included; the raw line is parsed only when no field gives an amount.
C10_FirstFieldAmount ==
    pop = "infer" =>
        LET parts == re_split_ws2(ptext)
            K     == {k \in 1..Len(parts) : try_parse_amount(parts[k]) # None}
        IN  IF K # {} THEN pin = try_parse_amount(parts[Min(K)])
            ELSE pin = try_parse_amount(ptext)

=============================================================================
